---- MODULE Spec2Model ----
(***************************************************************************)
(* The bootstrap protocol of bootstrap.go: N server instances run          *)
(* bootstrap() against one shared store.  The program text (the statement  *)
(* lists of doDDLWorks and doDMLWorks, the control flow of bootstrap,      *)
(* checkBootstrapped and checkBootstrappedVar, mustExecute) is modelled    *)
(* from the source.  The Session (Execute, FinishTxn) is the external      *)
(* executor: a store that applies each statement atomically, enforces the  *)
(* primary keys the schema text declares, buffers the writes of an         *)
(* explicit transaction and applies them atomically at COMMIT.             *)
(***************************************************************************)
EXTENDS Integers, Sequences, FiniteSets, Bags, TLC

\* Number of server instances (bootstrap() executions) sharing the store.
NumInstances == 2

\* Number of entries of the variable registry (variable.SysVars).
NumSysVars == 2

Instances == 1..NumInstances

(***************************************************************************)
(* Program constants                                                       *)
(***************************************************************************)
SystemDB == "mysql"

TiDBTable == "mysql.tidb"

UserTable == "mysql.user"

GlobalVariablesTable == "mysql.GLOBAL_VARIABLES"

bootstrappedVar == "bootstrapped"

bootstrappedVarTrue == "True"

\* A column value as the Go interface{} the record set hands back: a string
\* or the nil interface (SQL NULL).
StringDatum(s) == [type |-> "string", v |-> s]

NullDatum == [type |-> "nil", v |-> ""]

(***************************************************************************)
(* Schema text.  Each statement is "create ... if not exists"; pk says     *)
(* whether the definition declares a PRIMARY KEY.                          *)
(***************************************************************************)
\* Faulty variant: CREATE DATABASE without IF NOT EXISTS.
CreateDatabasePlain(db) ==
    [kind |-> "createdb", obj |-> db, db |-> db, ifNotExists |-> FALSE, pk |-> FALSE]

CreateDatabase(db) == [kind |-> "createdb", obj |-> db, db |-> db, ifNotExists |-> TRUE, pk |-> FALSE]

\* Faulty variant: the schema text declares no primary key.
CreateTableNoPK(db, name, pk) ==
    [kind |-> "createtable", obj |-> name, db |-> db, ifNotExists |-> TRUE, pk |-> FALSE]

\* Faulty variant: CREATE TABLE without "if not exists".
CreateTablePlain(db, name, pk) ==
    [kind |-> "createtable", obj |-> name, db |-> db, ifNotExists |-> FALSE, pk |-> pk]

CreateTable(db, name, pk) ==
    [kind |-> "createtable", obj |-> name, db |-> db, ifNotExists |-> TRUE, pk |-> pk]

CreateUserTable == CreateTable("mysql", UserTable, TRUE)

CreateDBPrivTable == CreateTable("mysql", "mysql.db", TRUE)

CreateTablePrivTable == CreateTable("mysql", "mysql.tables_priv", TRUE)

CreateColumnPrivTable == CreateTable("mysql", "mysql.columns_priv", TRUE)

CreateGloablVariablesTable == CreateTable("mysql", GlobalVariablesTable, TRUE)

CreateProcTable == CreateTable("mysql", "mysql.proc", TRUE)

CreateSomething1 ==
    CreateTable("performance_schema", "performance_schema.events_statements_current", FALSE)

CreateSomething2 ==
    CreateTable("performance_schema", "performance_schema.events_stages_history_long", FALSE)

CreateSomething3 ==
    CreateTable("performance_schema", "performance_schema.events_waits_history_long", FALSE)

CreateTiDBTable == CreateTable("mysql", TiDBTable, TRUE)

\* Faulty variant: the user table is created before the system database.
DDLStatementsTableFirst ==
    << CreateDatabase("test"),
       CreateUserTable,
       CreateDatabase(SystemDB),
       CreateDBPrivTable,
       CreateTablePrivTable,
       CreateColumnPrivTable,
       CreateGloablVariablesTable,
       CreateProcTable,
       CreateDatabase("performance_schema"),
       CreateSomething1,
       CreateSomething2,
       CreateSomething3,
       CreateTiDBTable >>

\* doDDLWorks: the statements it hands to mustExecute, in order.
DDLStatements ==
    << CreateDatabase("test"),
       CreateDatabase(SystemDB),
       CreateUserTable,
       CreateDBPrivTable,
       CreateTablePrivTable,
       CreateColumnPrivTable,
       CreateGloablVariablesTable,
       CreateProcTable,
       CreateDatabase("performance_schema"),
       CreateSomething1,
       CreateSomething2,
       CreateSomething3,
       CreateTiDBTable >>

(***************************************************************************)
(* Seed data                                                               *)
(***************************************************************************)
\* The variable registry: key k is spelled in upper case when k is odd.
SysVars == [k \in 1..NumSysVars |-> [name |-> [id |-> k, upper |-> (k % 2 = 1)],
                                     Value |-> StringDatum("default")]]

\* strings.ToLower on a registry key.
ToLower(name) == [name EXCEPT !.upper = FALSE]

PrivColumns == 12

\* Faulty variant: one privilege column of the default user left at "N".
DefaultUserRowNoGrant ==
    [Host |-> "%", User |-> "root", Password |-> "",
     Privs |-> [c \in 1..PrivColumns |-> IF c = 7 THEN "N" ELSE "Y"]]

\* The row of INSERT INTO mysql.user VALUES ("%", "root", "", "Y", ... "Y").
DefaultUserRow ==
    [Host |-> "%", User |-> "root", Password |-> "", Privs |-> [c \in 1..PrivColumns |-> "Y"]]

\* The rows of the bulk insert into GLOBAL_VARIABLES.
SysVarRows ==
    {[VARIABLE_NAME |-> ToLower(SysVars[k].name), VARIABLE_VALUE |-> SysVars[k].Value] :
        k \in 1..NumSysVars}

BootstrapFlagRow ==
    [VARIABLE_NAME |-> bootstrappedVar,
     VARIABLE_VALUE |-> StringDatum(bootstrappedVarTrue),
     COMMENT |-> "Bootstrap flag. Do not delete."]

\* Faulty variant: the flag is written first, outside the transaction.
DMLStatementsFlagFirst ==
    << [kind |-> "upsert", obj |-> TiDBTable, rows |-> {BootstrapFlagRow},
        value |-> StringDatum(bootstrappedVarTrue)],
       [kind |-> "begin", obj |-> ""],
       [kind |-> "insert", obj |-> UserTable, rows |-> {DefaultUserRow}],
       [kind |-> "insert", obj |-> GlobalVariablesTable, rows |-> SysVarRows],
       [kind |-> "commit", obj |-> ""] >>

\* Faulty variant: the flag row is written by a plain INSERT.
DMLStatementsFlagInsert ==
    << [kind |-> "begin", obj |-> ""],
       [kind |-> "insert", obj |-> UserTable, rows |-> {DefaultUserRow}],
       [kind |-> "insert", obj |-> GlobalVariablesTable, rows |-> SysVarRows],
       [kind |-> "insert", obj |-> TiDBTable, rows |-> {BootstrapFlagRow}],
       [kind |-> "commit", obj |-> ""] >>

\* Faulty variant: the transaction is never committed.
DMLStatementsNoCommit ==
    << [kind |-> "begin", obj |-> ""],
       [kind |-> "insert", obj |-> UserTable, rows |-> {DefaultUserRow}],
       [kind |-> "insert", obj |-> GlobalVariablesTable, rows |-> SysVarRows],
       [kind |-> "upsert", obj |-> TiDBTable, rows |-> {BootstrapFlagRow},
        value |-> StringDatum(bootstrappedVarTrue)] >>

\* Faulty variant: no BEGIN, so every statement commits on its own.
DMLStatementsNoBegin ==
    << [kind |-> "insert", obj |-> UserTable, rows |-> {DefaultUserRow}],
       [kind |-> "insert", obj |-> GlobalVariablesTable, rows |-> SysVarRows],
       [kind |-> "upsert", obj |-> TiDBTable, rows |-> {BootstrapFlagRow},
        value |-> StringDatum(bootstrappedVarTrue)],
       [kind |-> "commit", obj |-> ""] >>

\* doDMLWorks: the statements it hands to mustExecute, in order.
DMLStatements ==
    << [kind |-> "begin", obj |-> ""],
       [kind |-> "insert", obj |-> UserTable, rows |-> {DefaultUserRow}],
       [kind |-> "insert", obj |-> GlobalVariablesTable, rows |-> SysVarRows],
       [kind |-> "upsert", obj |-> TiDBTable, rows |-> {BootstrapFlagRow},
        value |-> StringDatum(bootstrappedVarTrue)],
       [kind |-> "commit", obj |-> ""] >>

UseStatement == [kind |-> "use", obj |-> SystemDB]

SelectStatement == [kind |-> "select", obj |-> TiDBTable, key |-> bootstrappedVar]

FinishTxnCall == [kind |-> "finishtxn", obj |-> ""]


(***************************************************************************)
(* State                                                                   *)
(***************************************************************************)
VARIABLES
    dbs,      \* store: the databases that exist
    tables,   \* store: the tables that exist, each with its definition
    rows,     \* store: committed rows of the seeded tables, a bag per table
    txn,      \* per instance: the session's transaction (open, explicit, writes)
    pc,       \* per instance: position in bootstrap()
    idx,      \* per instance: index of the next statement of doDDLWorks/doDMLWorks
    b,        \* per instance: what checkBootstrapped returned ("unset" before)
    halt,     \* per instance: the error that ended it ("nil" when none)
    lastErr,  \* per instance: the error its latest call on the Session returned
    issued,   \* per instance: the calls made on the Session, in order
    began     \* per instance: how things stood when the run issued its first call
              \* (store: the committed store, kept when the flag was "True")

vars == <<dbs, tables, rows, txn, pc, idx, b, halt, lastErr, issued, began>>

SeededTables == {UserTable, GlobalVariablesTable, TiDBTable}

nil == "nil"

\* The error of an injected store failure: none of the classified ones.
StoreFailure == "StoreFailure"

NoTxn == [open |-> FALSE, explicit |-> FALSE, writes |-> <<>>]

NoRow == [none |-> TRUE]

(***************************************************************************)
(* The Session: Execute and FinishTxn on the shared store                  *)
(***************************************************************************)
TableExists(name) == \E t \in tables : t.obj = name

HasPK(name) == \E t \in tables : t.obj = name /\ t.pk

\* The primary key of a row: (Host, User) in mysql.user, VARIABLE_NAME elsewhere.
Key(name, r) == IF name = UserTable THEN <<r.Host, r.User>> ELSE <<r.VARIABLE_NAME>>

\* Inserting the set new into a table holding the bag old breaks the primary key.
DupKey(name, new, old) ==
    /\ HasPK(name)
    /\ \/ \E r1 \in new, r2 \in new : r1 # r2 /\ Key(name, r1) = Key(name, r2)
       \/ \E r1 \in new, r2 \in BagToSet(old) : Key(name, r1) = Key(name, r2)

\* INSERT ... ON DUPLICATE KEY UPDATE VARIABLE_VALUE = value, on the bag old.
Upsert(name, new, value, old) ==
    LET hit == {r \in BagToSet(old) : \E n \in new : Key(name, n) = Key(name, r)}
    IN  IF HasPK(name) /\ hit # {}
        THEN LET e == CHOOSE r \in hit : TRUE
             IN  (old (-) SetToBag({e})) (+) SetToBag({[e EXCEPT !.VARIABLE_VALUE = value]})
        ELSE old (+) SetToBag(new)

\* One buffered or autocommitted write applied to the committed rows R.
ApplyWrite(R, w) ==
    IF w.kind = "upsert"
    THEN [ok |-> TRUE, rows |-> [R EXCEPT ![w.obj] = Upsert(w.obj, w.rows, w.value, @)]]
    ELSE IF DupKey(w.obj, w.rows, R[w.obj])
         THEN [ok |-> FALSE, rows |-> R]
         ELSE [ok |-> TRUE, rows |-> [R EXCEPT ![w.obj] = @ (+) SetToBag(w.rows)]]

\* The writes of a transaction applied in order; all of them or none.
RECURSIVE ApplyWrites(_, _)
ApplyWrites(R, ws) ==
    IF ws = <<>> THEN [ok |-> TRUE, rows |-> R]
    ELSE LET one == ApplyWrite(R, Head(ws))
         IN  IF one.ok THEN ApplyWrites(one.rows, Tail(ws)) ELSE [ok |-> FALSE, rows |-> R]

\* The rows a transaction has buffered for a table.
Buffered(t, name) ==
    UNION {t.writes[k].rows : k \in {j \in 1..Len(t.writes) : t.writes[j].obj = name}}

Result(err, d, tb, R, t, rs) ==
    [err |-> err, dbs |-> d, tables |-> tb, rows |-> R, txn |-> t, rs |-> rs]

Failed(i, err) == Result(err, dbs, tables, rows, txn[i], <<>>)

\* Ending the session's transaction: its writes become visible together.
CommitTxn(i) ==
    LET done == ApplyWrites(rows, txn[i].writes)
    IN  IF done.ok THEN Result(nil, dbs, tables, done.rows, NoTxn, <<>>)
        ELSE Result("KeyExists", dbs, tables, rows, NoTxn, <<>>)

\* A write statement: buffered inside an explicit transaction, applied at once
\* (autocommit) outside one.
WriteStmt(i, stmt) ==
    IF ~TableExists(stmt.obj) THEN Failed(i, "TableNotExists")
    ELSE IF stmt.kind = "insert"
            /\ DupKey(stmt.obj, stmt.rows,
                      rows[stmt.obj] (+) SetToBag(Buffered(txn[i], stmt.obj)))
         THEN Failed(i, "KeyExists")
    ELSE IF txn[i].explicit
         THEN Result(nil, dbs, tables, rows,
                     [txn[i] EXCEPT !.writes = Append(@, stmt)], <<>>)
         ELSE Result(nil, dbs, tables, ApplyWrite(rows, stmt).rows, txn[i], <<>>)

\* s.Execute(stmt) and s.FinishTxn(false) of instance i; ok = FALSE is a store
\* failure, which changes nothing.
Execute(i, stmt, ok) ==
    IF ~ok THEN Failed(i, StoreFailure)
    ELSE CASE stmt.kind = "use" ->
              IF stmt.obj \in dbs THEN Result(nil, dbs, tables, rows, txn[i], <<>>)
              ELSE Failed(i, "DatabaseNotExists")
         [] stmt.kind = "select" ->
              IF ~TableExists(stmt.obj) THEN Failed(i, "TableNotExists")
              ELSE Result(nil, dbs, tables, rows, [txn[i] EXCEPT !.open = TRUE],
                          << {r \in BagToSet(rows[stmt.obj]) : r.VARIABLE_NAME = stmt.key} >>)
         [] stmt.kind = "createdb" ->
              IF stmt.obj \in dbs
              THEN IF stmt.ifNotExists THEN Result(nil, dbs, tables, rows, txn[i], <<>>)
                   ELSE Failed(i, "DatabaseExists")
              ELSE Result(nil, dbs \cup {stmt.obj}, tables, rows, txn[i], <<>>)
         [] stmt.kind = "createtable" ->
              IF stmt.db \notin dbs THEN Failed(i, "DatabaseNotExists")
              ELSE IF TableExists(stmt.obj)
                   THEN IF stmt.ifNotExists THEN Result(nil, dbs, tables, rows, txn[i], <<>>)
                        ELSE Failed(i, "TableExists")
                   ELSE Result(nil, dbs,
                               tables \cup {[obj |-> stmt.obj, db |-> stmt.db, pk |-> stmt.pk]},
                               rows, txn[i], <<>>)
         [] stmt.kind = "begin" ->
              LET done == CommitTxn(i)
              IN  IF done.err # nil THEN done
                  ELSE [done EXCEPT !.txn = [open |-> TRUE, explicit |-> TRUE, writes |-> <<>>]]
         [] stmt.kind \in {"commit", "finishtxn"} -> CommitTxn(i)
         [] stmt.kind \in {"insert", "upsert"} -> WriteStmt(i, stmt)


(***************************************************************************)
(* The program                                                             *)
(***************************************************************************)
\* errors.Trace: annotates an error; nil stays nil.
Trace(err) == err

\* r.Next() on a record set: its next row, or no row at its end.
NextRows(rset) == IF rset = {} THEN {NoRow} ELSE rset

Return(bv, err) == [to |-> "return", b |-> bv, err |-> err]

\* Faulty variant: the initialized branch returns without s.FinishTxn(false).
checkBootstrappedVarNoFinish(err, rs, row, nextErr) ==
    IF err # nil
    THEN IF err = "TableNotExists" THEN Return(FALSE, nil) ELSE Return(FALSE, Trace(err))
    ELSE IF Len(rs) # 1 THEN Return(FALSE, "Wrong number of Recordset")
    ELSE IF nextErr # nil \/ row = NoRow THEN Return(FALSE, Trace(nextErr))
    ELSE IF row.VARIABLE_VALUE.type # "string" THEN [to |-> "panic", b |-> FALSE, err |-> nil]
    ELSE IF row.VARIABLE_VALUE.v = bootstrappedVarTrue
         THEN Return(TRUE, nil)
         ELSE Return(FALSE, nil)

\* Faulty variant: the value is compared with "true" instead of the sentinel.
checkBootstrappedVarLowerSentinel(err, rs, row, nextErr) ==
    IF err # nil
    THEN IF err = "TableNotExists" THEN Return(FALSE, nil) ELSE Return(FALSE, Trace(err))
    ELSE IF Len(rs) # 1 THEN Return(FALSE, "Wrong number of Recordset")
    ELSE IF nextErr # nil \/ row = NoRow THEN Return(FALSE, Trace(nextErr))
    ELSE IF row.VARIABLE_VALUE.type # "string" THEN [to |-> "panic", b |-> FALSE, err |-> nil]
    ELSE IF row.VARIABLE_VALUE.v = "true"
         THEN [to |-> "finishTxn", b |-> TRUE, err |-> nil]
         ELSE Return(FALSE, nil)

\* Faulty variant: a flag read that yields no row is reported as an error.
checkBootstrappedVarNoRowError(err, rs, row, nextErr) ==
    IF err # nil
    THEN IF err = "TableNotExists" THEN Return(FALSE, nil) ELSE Return(FALSE, Trace(err))
    ELSE IF Len(rs) # 1 THEN Return(FALSE, "Wrong number of Recordset")
    ELSE IF nextErr # nil THEN Return(FALSE, Trace(nextErr))
    ELSE IF row = NoRow THEN Return(FALSE, "Wrong number of rows")
    ELSE IF row.VARIABLE_VALUE.type # "string" THEN [to |-> "panic", b |-> FALSE, err |-> nil]
    ELSE IF row.VARIABLE_VALUE.v = bootstrappedVarTrue
         THEN [to |-> "finishTxn", b |-> TRUE, err |-> nil]
         ELSE Return(FALSE, nil)

\* Faulty variant: any flag row counts as bootstrapped, whatever its value.
checkBootstrappedVarAnyRow(err, rs, row, nextErr) ==
    IF err # nil
    THEN IF err = "TableNotExists" THEN Return(FALSE, nil) ELSE Return(FALSE, Trace(err))
    ELSE IF Len(rs) # 1 THEN Return(FALSE, "Wrong number of Recordset")
    ELSE IF nextErr # nil \/ row = NoRow THEN Return(FALSE, Trace(nextErr))
    ELSE IF row.VARIABLE_VALUE.type # "string" THEN [to |-> "panic", b |-> FALSE, err |-> nil]
    ELSE [to |-> "finishTxn", b |-> TRUE, err |-> nil]

\* checkBootstrappedVar up to the FinishTxn call: err and rs are what Execute
\* returned, row and nextErr what rs[0].Next() returned.
checkBootstrappedVar(err, rs, row, nextErr) ==
    IF err # nil
    THEN IF err = "TableNotExists" THEN Return(FALSE, nil) ELSE Return(FALSE, Trace(err))
    ELSE IF Len(rs) # 1 THEN Return(FALSE, "Wrong number of Recordset")
    ELSE IF nextErr # nil \/ row = NoRow THEN Return(FALSE, Trace(nextErr))
    ELSE IF row.VARIABLE_VALUE.type # "string" THEN [to |-> "panic", b |-> FALSE, err |-> nil]
    ELSE IF row.VARIABLE_VALUE.v = bootstrappedVarTrue
         THEN [to |-> "finishTxn", b |-> TRUE, err |-> nil]
         ELSE Return(FALSE, nil)

\* checkBootstrappedVar after s.FinishTxn(false) returned err.
checkBootstrappedVarFinish(err) ==
    IF err # nil THEN Return(FALSE, Trace(err)) ELSE Return(TRUE, nil)

\* Faulty variant: every error of the USE statement is fatal.
checkBootstrappedUseFatalAny(err) == err # nil

\* checkBootstrapped after the USE statement: is its error fatal?
checkBootstrappedUseFatal(err) == err # nil /\ err # "DatabaseNotExists"

\* checkBootstrapped on what checkBootstrappedVar returned.
checkBootstrapped(v, err) == IF err # nil THEN Return(FALSE, Trace(err)) ELSE Return(v, nil)

\* Faulty variant: the Probe's answer is not looked at.
bootstrapIgnoresFlag(bv, err) == IF err # nil THEN "fatal" ELSE "ddl"

\* bootstrap on what checkBootstrapped returned: where it goes next.
bootstrap(bv, err) == IF err # nil THEN "fatal" ELSE IF bv THEN "returned" ELSE "ddl"

\* Faulty variant: the statement's error is dropped.
mustExecuteIgnores(err) == FALSE

\* mustExecute: is the statement's error fatal?
mustExecute(err) == err # nil

Terminal == {"returned", "fatal", "panic", "crashed"}

FlagRows == {r \in BagToSet(rows[TiDBTable]) : r.VARIABLE_NAME = bootstrappedVar}

FlagTrue == \E r \in FlagRows : r.VARIABLE_VALUE = StringDatum(bootstrappedVarTrue)

\* The call and the error it returned.
Log(i, stmt, err) ==
    /\ issued' = [issued EXCEPT ![i] = Append(@, <<stmt.kind, stmt.obj>>)]
    /\ lastErr' = [lastErr EXCEPT ![i] = err]

Store(r) == dbs' = r.dbs /\ tables' = r.tables /\ rows' = r.rows

\* The process ends (log.Fatal, a panic, a kill): its transaction is dropped.
Exit(i, to, err) ==
    /\ pc' = [pc EXCEPT ![i] = to]
    /\ halt' = [halt EXCEPT ![i] = err]
    /\ txn' = [txn EXCEPT ![i] = NoTxn]

Goto(i, to, r) ==
    /\ pc' = [pc EXCEPT ![i] = to]
    /\ txn' = [txn EXCEPT ![i] = r.txn]
    /\ UNCHANGED halt

\* bootstrap acting on the probe's answer.
Coordinate(i, r, ans) ==
    LET ret == checkBootstrapped(ans.b, ans.err)
        to == bootstrap(ret.b, ret.err)
    IN  /\ b' = [b EXCEPT ![i] = IF ret.err # nil THEN "error"
                                 ELSE IF ret.b THEN "true" ELSE "false"]
        /\ idx' = [idx EXCEPT ![i] = 1]
        /\ IF to = "fatal" THEN Exit(i, "fatal", ret.err) ELSE Goto(i, to, r)

\* checkBootstrapped: USE mysql.
Use(i) ==
    /\ pc[i] = "start"
    /\ \E ok \in BOOLEAN :
         LET r == Execute(i, UseStatement, ok)
         IN  /\ Store(r)
             /\ Log(i, UseStatement, r.err)
             /\ began' = [began EXCEPT ![i] =
                    [flagTrue |-> FlagTrue,
                     afterReturn |-> \E j \in Instances : pc[j] = "returned",
                     alone |-> \A j \in Instances \ {i} : pc[j] \in Terminal,
                     store |-> IF FlagTrue THEN <<dbs, tables, rows>> ELSE <<>>]]
             /\ IF checkBootstrappedUseFatal(r.err)
                THEN Exit(i, "fatal", r.err)
                ELSE Goto(i, "checkVar", r)
             /\ UNCHANGED <<idx, b>>

\* checkBootstrappedVar: the flag read and the decision on its row.
CheckVar(i) ==
    /\ pc[i] = "checkVar"
    /\ \E ok \in BOOLEAN, nextOk \in BOOLEAN :
         LET r == Execute(i, SelectStatement, ok)
             nextErr == IF nextOk \/ r.err # nil THEN nil ELSE StoreFailure
         IN  \E row \in (IF r.err = nil /\ nextErr = nil THEN NextRows(r.rs[1]) ELSE {NoRow}) :
               LET ans == checkBootstrappedVar(r.err, r.rs, row, nextErr)
               IN  /\ Store(r)
                   /\ Log(i, SelectStatement, IF r.err # nil THEN r.err ELSE nextErr)
                   /\ UNCHANGED began
                   /\ IF ans.to = "panic"
                      THEN Exit(i, "panic", "interface conversion") /\ UNCHANGED <<idx, b>>
                      ELSE IF ans.to = "finishTxn"
                      THEN Goto(i, "finishTxn", r) /\ UNCHANGED <<idx, b>>
                      ELSE Coordinate(i, r, ans)

\* checkBootstrappedVar: s.FinishTxn(false) on the initialized branch.
FinishTxn(i) ==
    /\ pc[i] = "finishTxn"
    /\ \E ok \in BOOLEAN :
         LET r == Execute(i, FinishTxnCall, ok)
         IN  /\ Store(r)
             /\ Log(i, FinishTxnCall, r.err)
             /\ UNCHANGED began
             /\ Coordinate(i, r, checkBootstrappedVarFinish(r.err))

\* One mustExecute of the statement list stmts; then on to `after`.
Run(i, stmts, after) ==
    \E ok \in BOOLEAN :
      LET stmt == stmts[idx[i]]
          r == Execute(i, stmt, ok)
      IN  /\ Store(r)
          /\ Log(i, stmt, r.err)
          /\ UNCHANGED <<began, b>>
          /\ IF mustExecute(r.err)
             THEN Exit(i, "fatal", r.err) /\ UNCHANGED idx
             ELSE IF idx[i] < Len(stmts)
             THEN Goto(i, pc[i], r) /\ idx' = [idx EXCEPT ![i] = @ + 1]
             ELSE Goto(i, after, r) /\ idx' = [idx EXCEPT ![i] = 1]

\* doDDLWorks, one statement at a time.
DoDDLWorks(i) == pc[i] = "ddl" /\ Run(i, DDLStatements, "dml")

\* doDMLWorks, one statement at a time.
DoDMLWorks(i) == pc[i] = "dml" /\ Run(i, DMLStatements, "returned")

\* The process is killed between two store calls.
Crash(i) ==
    /\ pc[i] \notin Terminal
    /\ Exit(i, "crashed", "killed")
    /\ UNCHANGED <<dbs, tables, rows, idx, b, lastErr, issued, began>>

Step(i) ==
    \/ Use(i)
    \/ CheckVar(i)
    \/ FinishTxn(i)
    \/ DoDDLWorks(i)
    \/ DoDMLWorks(i)
    \/ Crash(i)

Next == \E i \in Instances : Step(i)

NotBegun == [flagTrue |-> FALSE, afterReturn |-> FALSE, alone |-> FALSE, store |-> <<>>]

InitInstances ==
    /\ txn = [i \in Instances |-> NoTxn]
    /\ pc = [i \in Instances |-> "start"]
    /\ idx = [i \in Instances |-> 1]
    /\ b = [i \in Instances |-> "unset"]
    /\ halt = [i \in Instances |-> nil]
    /\ lastErr = [i \in Instances |-> nil]
    /\ issued = [i \in Instances |-> <<>>]
    /\ began = [i \in Instances |-> NotBegun]

NoRows == [t \in SeededTables |-> EmptyBag]

\* A fresh store: no database, no table, no row.
Init ==
    /\ dbs = {}
    /\ tables = {}
    /\ rows = NoRows
    /\ InitInstances

Spec == Init /\ [][Next]_vars


(***************************************************************************)
(* Probing stores that are not fresh                                       *)
(***************************************************************************)
ExpectedDbs == {DDLStatements[k].obj : k \in {j \in 1..Len(DDLStatements) :
                                                DDLStatements[j].kind = "createdb"}}

ExpectedTables ==
    {[obj |-> DDLStatements[k].obj, db |-> DDLStatements[k].db, pk |-> DDLStatements[k].pk] :
        k \in {j \in 1..Len(DDLStatements) : DDLStatements[j].kind = "createtable"}}

SeededRows ==
    [t \in SeededTables |->
        CASE t = UserTable -> SetToBag({DefaultUserRow})
          [] t = GlobalVariablesTable -> SetToBag(SysVarRows)
          [] t = TiDBTable -> SetToBag({BootstrapFlagRow})]

\* Values a flag row may hold besides the sentinel: other strings, and NULL
\* (VARIABLE_VALUE is DEFAULT Null).
OtherFlagValues == {StringDatum("False"), StringDatum("true"), NullDatum}

\* The stores bootstrap() may be started on: fresh, installed but unseeded (a
\* run that stopped before COMMIT), unseeded with a flag row of another value,
\* and fully bootstrapped.
InitProbe ==
    /\ InitInstances
    /\ \/ dbs = {} /\ tables = {} /\ rows = NoRows
       \/ /\ dbs = ExpectedDbs
          /\ tables = ExpectedTables
          /\ \/ rows = NoRows
             \/ rows = SeededRows
             \/ \E v \in OtherFlagValues :
                  rows = [NoRows EXCEPT ![TiDBTable] =
                             SetToBag({[BootstrapFlagRow EXCEPT !.VARIABLE_VALUE = v]})]

NextProbe ==
    \E i \in Instances :
        \/ Use(i)
        \/ CheckVar(i)
        \/ FinishTxn(i)
        \/ DoDDLWorks(i)
        \/ DoDMLWorks(i)

ProbeSpec == InitProbe /\ [][NextProbe]_vars


(***************************************************************************)
(* Observations used by the properties                                     *)
(***************************************************************************)
\* The run was cut short by the environment: a store failure or a kill.
Faulted(i) == halt[i] \in {StoreFailure, "killed"}

\* The run went through doDMLWorks to the end: its COMMIT succeeded.
Committed(i) == pc[i] = "returned" /\ b[i] = "false"

ProbeCalls == {"use", "select", "finishtxn"}

\* The run has made no call but the Probe's.
ProbeOnly(i) == \A k \in 1..Len(issued[i]) : issued[i][k][1] \in ProbeCalls

Issued(i, call) == \E k \in 1..Len(issued[i]) : issued[i][k] = call

VarRowsOf(k) == {r \in BagToSet(rows[GlobalVariablesTable]) : r.VARIABLE_NAME.id = k}

ExactlyOnce ==
    /\ dbs = {"test", "mysql", "performance_schema"}
    /\ Cardinality(tables) = 10
    /\ \A t1 \in tables, t2 \in tables : t1.obj = t2.obj => t1 = t2
    /\ BagCardinality(rows[UserTable]) = 1
    /\ BagCardinality(rows[GlobalVariablesTable]) = Cardinality(DOMAIN SysVars)
    /\ \A k \in DOMAIN SysVars : Cardinality(VarRowsOf(k)) = 1
    /\ BagCardinality(rows[TiDBTable]) = 1
    /\ Cardinality(FlagRows) = 1

AtMostOnce ==
    /\ \A t1 \in tables, t2 \in tables : t1.obj = t2.obj => t1 = t2
    /\ BagCardinality(rows[UserTable]) <= 1
    /\ BagCardinality(rows[GlobalVariablesTable]) <= Cardinality(DOMAIN SysVars)
    /\ BagCardinality(rows[TiDBTable]) <= 1

C2_FlagImpliesInitialized ==
    FlagTrue =>
        /\ dbs = ExpectedDbs
        /\ tables = ExpectedTables
        /\ BagIn(DefaultUserRow, rows[UserTable])
        /\ \A k \in DOMAIN SysVars : VarRowsOf(k) # {}

C2_Witness == FlagTrue /\ \E i \in Instances : pc[i] = "dml" /\ b[i] = "false"

(***************************************************************************)
(* C3: seeding is all-or-nothing: as long as no run's COMMIT has           *)
(* succeeded, the committed store shows no principal row, no variable row  *)
(* and no flag row, however far a Loader got before it failed or was       *)
(* killed; and the three are only ever visible together.                   *)
(***************************************************************************)
C3_SeedAllOrNothing ==
    /\ (\A i \in Instances : ~Committed(i)) => rows = NoRows
    /\ rows = NoRows \/ \A t \in SeededTables : rows[t] # EmptyBag

C3_Witness ==
    \E i \in Instances :
        /\ pc[i] \in {"crashed", "fatal"}
        /\ Faulted(i)
        /\ Issued(i, <<"insert", UserTable>>)
        /\ Len(issued[i]) > 2 + Len(DDLStatements) + 2
        /\ rows = NoRows

(***************************************************************************)
(* C4: a bootstrap() run that starts after another run has returned, with  *)
(* no run in progress, leaves the store as it found it: it makes only the  *)
(* Probe's calls and, unless cut short, returns on the initialized branch. *)
(***************************************************************************)
C4_SecondRunChangesNothing ==
    \A i \in Instances :
        (began[i].afterReturn /\ began[i].alone) =>
            /\ <<dbs, tables, rows>> = began[i].store
            /\ ProbeOnly(i)
            /\ (pc[i] \in Terminal /\ ~Faulted(i)) => (pc[i] = "returned" /\ b[i] = "true")

C4_Witness ==
    \E i \in Instances :
        /\ began[i].afterReturn /\ began[i].alone
        /\ pc[i] = "returned"
        /\ \E j \in Instances \ {i} : Committed(j)

(***************************************************************************)
(* C5: a run started on a store whose flag is "True" issues no Installer   *)
(* and no Loader statement and leaves the committed store unchanged; if    *)
(* not cut short it returns without error after exactly three calls: the   *)
(* namespace switch, the flag read and the release of the transaction.     *)
(***************************************************************************)
C5_InitializedIsNoOp ==
    \A i \in Instances :
        began[i].flagTrue =>
            /\ \A k \in 1..Len(issued[i]) :
                   issued[i][k][1] \notin {"createdb", "createtable", "begin", "insert",
                                           "upsert", "commit"}
            /\ began[i].store = <<dbs, tables, rows>>
            /\ (pc[i] \in Terminal /\ ~Faulted(i)) =>
                   /\ pc[i] = "returned"
                   /\ halt[i] = nil
                   /\ issued[i] = << <<"use", "mysql">>, <<"select", "mysql.tidb">>,
                                     <<"finishtxn", "">> >>

C5_Witness ==
    \E i \in Instances :
        /\ began[i].flagTrue
        /\ pc[i] = "returned"
        /\ b[i] = "true"
        /\ Len(issued[i]) = 3
        /\ txn[i] = NoTxn

(***************************************************************************)
(* C6: an instance running alone on a fresh store makes at most 20 calls,  *)
(* can always make its next call, and unless the store fails or it is      *)
(* killed it returns without error with one flag row "True", one principal *)
(* row (%, root, empty password, every privilege "Y") and as many variable *)
(* rows as the registry has entries.                                       *)
(***************************************************************************)
OnlyRun(i) == issued[i] # <<>> /\ \A j \in Instances \ {i} : issued[j] = <<>>

C6_FreshSingleRun ==
    \A i \in Instances :
        OnlyRun(i) =>
            /\ Len(issued[i]) <= 20
            /\ pc[i] \notin Terminal =>
                   ENABLED (Use(i) \/ CheckVar(i) \/ FinishTxn(i) \/ DoDDLWorks(i) \/ DoDMLWorks(i))
            /\ (pc[i] \in Terminal /\ ~Faulted(i)) =>
                   /\ pc[i] = "returned" /\ halt[i] = nil /\ b[i] = "false"
                   /\ BagCardinality(rows[TiDBTable]) = 1
                   /\ \A r \in BagToSet(rows[TiDBTable]) :
                          r.VARIABLE_NAME = "bootstrapped" /\ r.VARIABLE_VALUE = StringDatum("True")
                   /\ BagCardinality(rows[UserTable]) = 1
                   /\ \A r \in BagToSet(rows[UserTable]) :
                          /\ r.Host = "%" /\ r.User = "root" /\ r.Password = ""
                          /\ DOMAIN r.Privs = 1..12
                          /\ \A c \in DOMAIN r.Privs : r.Privs[c] = "Y"
                   /\ BagCardinality(rows[GlobalVariablesTable]) = Cardinality(DOMAIN SysVars)

C6_Witness == \E i \in Instances : OnlyRun(i) /\ pc[i] = "returned" /\ FlagTrue


(***************************************************************************)
(* Steps of the Probe, told from the states before and after               *)
(***************************************************************************)
\* Instance i's USE call returns in this step.
UseStep(i) == pc[i] = "start" /\ issued'[i] # issued[i]

\* Instance i's flag read returns in this step.
ReadStep(i) == pc[i] = "checkVar" /\ issued'[i] # issued[i]

\* Instance i's FinishTxn call returns in this step.
FinishStep(i) == pc[i] = "finishTxn" /\ issued'[i] # issued[i]

\* The call of this step was answered by the store (no injected failure).
Answered(i) == halt'[i] # StoreFailure

ZeroFlagRows == TableExists(TiDBTable) /\ FlagRows = {}

StringFlagRow ==
    /\ TableExists(TiDBTable)
    /\ Cardinality(FlagRows) = 1
    /\ \A r \in FlagRows : r.VARIABLE_VALUE.type = "string"

C8_TrueIffSentinel ==
    [][\A i \in Instances :
          /\ (ReadStep(i) /\ StringFlagRow /\ Answered(i)) =>
                 IF \E r \in FlagRows : r.VARIABLE_VALUE.v = "True"
                 THEN pc'[i] = "finishTxn" /\ halt'[i] = nil
                 ELSE b'[i] = "false" /\ halt'[i] = nil /\ pc'[i] = "ddl"
          /\ (FinishStep(i) /\ Answered(i)) =>
                 (b'[i] = "true" /\ halt'[i] = nil /\ pc'[i] = "returned")
          /\ (b'[i] = "true" /\ b[i] # "true") =>
                 (FinishStep(i) /\ \E r \in FlagRows : r.VARIABLE_VALUE = StringDatum("True"))
          /\ (pc'[i] = "finishTxn" /\ pc[i] # "finishTxn") =>
                 \E r \in FlagRows : r.VARIABLE_VALUE = StringDatum("True")]_vars

C8_Witness ==
    \E i \in Instances :
        /\ OnlyRun(i)
        /\ Len(issued[i]) = 2
        /\ b[i] = "false" /\ halt[i] = nil
        /\ \E r \in FlagRows : r.VARIABLE_VALUE \in {StringDatum("False"), StringDatum("true")}

(***************************************************************************)
(* C9: the Probe returns (false, nil), with no error and no halt, on a     *)
(* store without the system namespace (USE fails with "database does not   *)
(* exist" and is passed over) and on a store without the flag table (the   *)
(* flag read fails with "table does not exist").                           *)
(***************************************************************************)
C9_AbsentMeansNotInitialized ==
    [][\A i \in Instances :
          /\ (UseStep(i) /\ SystemDB \notin dbs /\ Answered(i)) =>
                 (pc'[i] = "checkVar" /\ halt'[i] = nil)
          /\ (ReadStep(i) /\ ~TableExists(TiDBTable) /\ Answered(i)) =>
                 (b'[i] = "false" /\ halt'[i] = nil /\ pc'[i] = "ddl")]_vars

C9_Witness ==
    \E i \in Instances, j \in Instances :
        /\ pc[i] = "crashed" /\ b[i] = "false"
        /\ Issued(i, <<"createdb", "mysql">>)
        /\ began[j].alone
        /\ Len(issued[j]) = 2
        /\ b[j] = "false" /\ pc[j] = "ddl"
        /\ "mysql" \in dbs
        /\ ~TableExists(TiDBTable)

(***************************************************************************)
(* C10: when several instances run the Installer against the same store,   *)
(* no creation statement fails unless the store itself fails, no object is *)
(* created twice, and as soon as one instance is through the Installer the *)
(* store holds the 3 databases and 10 tables of one run alone.             *)
(***************************************************************************)
LastCall(i) == issued[i][Len(issued[i])]

ThroughInstaller(i) == b[i] = "false" /\ (pc[i] = "dml" \/ Issued(i, <<"begin", "">>))

C10_ConcurrentInstallers ==
    /\ \A i \in Instances :
           (pc[i] = "fatal" /\ issued[i] # <<>> /\ LastCall(i)[1] \in {"createdb", "createtable"})
               => halt[i] = StoreFailure
    /\ \A t1 \in tables, t2 \in tables : t1.obj = t2.obj => t1 = t2
    /\ dbs \subseteq {"test", "mysql", "performance_schema"}
    /\ (\E i \in Instances : ThroughInstaller(i)) =>
           /\ dbs = {"test", "mysql", "performance_schema"}
           /\ Cardinality(tables) = 10
           /\ tables = ExpectedTables

C10_Witness ==
    \E i \in Instances, j \in Instances :
        /\ i # j
        /\ pc[i] = "dml" /\ pc[j] = "dml"
        /\ idx[i] = 1 /\ idx[j] = 1
        /\ ~began[i].alone /\ ~began[j].alone


(***************************************************************************)
(* C11: an Installer statement issued when its object already exists, in   *)
(* particular every statement of an Installer run that follows a complete  *)
(* one, does not fail and leaves the databases and tables as they were.    *)
(***************************************************************************)
\* Instance i's next Installer statement returns in this step.
InstallStep(i) == pc[i] = "ddl" /\ issued'[i] # issued[i]

ObjectExists(stmt) ==
    IF stmt.kind = "createdb" THEN stmt.obj \in dbs ELSE TableExists(stmt.obj)

C11_InstallerReentrant ==
    [][\A i \in Instances :
          (InstallStep(i) /\ Answered(i) /\ ObjectExists(DDLStatements[idx[i]])) =>
              /\ dbs' = dbs /\ tables' = tables /\ rows' = rows
              /\ halt'[i] = nil
              /\ pc'[i] = (IF idx[i] = 13 THEN "dml" ELSE "ddl")]_vars

C11_Witness ==
    \E i \in Instances, j \in Instances :
        /\ pc[i] = "crashed" /\ Issued(i, <<"begin", "">>)
        /\ began[j].alone
        /\ pc[j] = "dml" /\ idx[j] = 1 /\ halt[j] = nil
        /\ dbs = {"test", "mysql", "performance_schema"}
        /\ Cardinality(tables) = 10


(***************************************************************************)
(* C12: no retries and no recovery.  Within one run no call is issued      *)
(* twice; an error other than the benign signal (DatabaseNotExists from    *)
(* the USE, TableNotExists from the flag read) halts the instance at once  *)
(* with that error; a halted instance issues no further call and stays     *)
(* halted.                                                                 *)
(***************************************************************************)
Benign(i) ==
    \/ Len(issued[i]) = 1 /\ lastErr[i] = "DatabaseNotExists"
    \/ Len(issued[i]) = 2 /\ lastErr[i] = "TableNotExists"

NoRepeat(i) ==
    \A k1 \in 1..Len(issued[i]), k2 \in 1..Len(issued[i]) :
        k1 # k2 => issued[i][k1] # issued[i][k2]

C12_NoRetryHaltOnError ==
    /\ [](\A i \in Instances :
             /\ NoRepeat(i)
             /\ (lastErr[i] # nil /\ ~Benign(i)) => (pc[i] = "fatal" /\ halt[i] = lastErr[i]))
    /\ [][\A i \in Instances :
             pc[i] \in Terminal =>
                 (pc'[i] = pc[i] /\ issued'[i] = issued[i] /\ halt'[i] = halt[i])]_vars

C12_Witness ==
    \E i \in Instances :
        /\ pc[i] = "fatal"
        /\ lastErr[i] = "KeyExists"
        /\ LastCall(i) = <<"insert", "mysql.user">>
        /\ \E j \in Instances : Committed(j)


(***************************************************************************)
(* C13: every instance follows START -> PROBE -> {ALREADY_DONE,            *)
(* NEEDS_INIT -> INSTALL -> SEED -> DONE}: its calls are a prefix of       *)
(* USE, flag read, FinishTxn or of USE, flag read, the 13 creation         *)
(* statements (flag table last), BEGIN, principal insert, variable insert, *)
(* flag upsert, COMMIT; it enters the Installer only after the Probe       *)
(* answered "not initialized"; every object exists before its first Loader *)
(* statement, so every seed write has its table; it returns only at the    *)
(* end of one of the two paths.                                            *)
(***************************************************************************)
ProbeCallsInOrder == << <<"use", "mysql">>, <<"select", "mysql.tidb">> >>

AlreadyDonePath == ProbeCallsInOrder \o << <<"finishtxn", "">> >>

InitializePath ==
    ProbeCallsInOrder \o
    << <<"createdb", "test">>,
       <<"createdb", "mysql">>,
       <<"createtable", "mysql.user">>,
       <<"createtable", "mysql.db">>,
       <<"createtable", "mysql.tables_priv">>,
       <<"createtable", "mysql.columns_priv">>,
       <<"createtable", "mysql.GLOBAL_VARIABLES">>,
       <<"createtable", "mysql.proc">>,
       <<"createdb", "performance_schema">>,
       <<"createtable", "performance_schema.events_statements_current">>,
       <<"createtable", "performance_schema.events_stages_history_long">>,
       <<"createtable", "performance_schema.events_waits_history_long">>,
       <<"createtable", "mysql.tidb">>,
       <<"begin", "">>,
       <<"insert", "mysql.user">>,
       <<"insert", "mysql.GLOBAL_VARIABLES">>,
       <<"upsert", "mysql.tidb">>,
       <<"commit", "">> >>

IsPrefix(s, t) == Len(s) <= Len(t) /\ \A k \in 1..Len(s) : s[k] = t[k]

C13_StateMachineOrder ==
    \A i \in Instances :
        /\ IsPrefix(issued[i], AlreadyDonePath) \/ IsPrefix(issued[i], InitializePath)
        /\ Len(issued[i]) < 2 => b[i] = "unset"
        /\ (Len(issued[i]) > 2 /\ issued[i][3] # <<"finishtxn", "">>) => b[i] = "false"
        /\ Issued(i, <<"finishtxn", "">>) => b[i] \in {"true", "error"}
        /\ Issued(i, <<"begin", "">>) =>
               /\ dbs = {"test", "mysql", "performance_schema"}
               /\ \A k \in 3..15 :
                      InitializePath[k][1] = "createtable" => TableExists(InitializePath[k][2])
        /\ pc[i] = "returned" =>
               \/ b[i] = "true" /\ issued[i] = AlreadyDonePath
               \/ b[i] = "false" /\ issued[i] = InitializePath

C13_Witness ==
    \E i \in Instances, j \in Instances :
        /\ pc[i] = "returned" /\ issued[i] = InitializePath
        /\ pc[j] = "returned" /\ issued[j] = AlreadyDonePath


(***************************************************************************)
(* C14: the Probe answers (true, nil) only in the step in which its        *)
(* FinishTxn(false) call returns without error, and that call closes the   *)
(* transaction the flag read opened; an instance that returned on the      *)
(* already-initialized branch holds no open transaction; when FinishTxn    *)
(* fails, the Probe's answer is an error, never (true, nil).               *)
(***************************************************************************)
C14_ProbeReleasesTxn ==
    /\ [](\A i \in Instances :
            (pc[i] = "returned" /\ b[i] = "true") =>
                /\ txn[i] = NoTxn
                /\ issued[i] = AlreadyDonePath
                /\ lastErr[i] = nil)
    /\ [][\A i \in Instances :
            /\ (b[i] # "true" /\ b'[i] = "true") =>
                   /\ FinishStep(i)
                   /\ txn[i].open
                   /\ lastErr'[i] = nil
                   /\ txn'[i] = NoTxn
            /\ (FinishStep(i) /\ lastErr'[i] # nil) =>
                   /\ b'[i] = "error"
                   /\ pc'[i] = "fatal"
                   /\ halt'[i] = lastErr'[i]]_vars

C14_Witness ==
    \E i \in Instances, j \in Instances :
        /\ pc[i] = "returned" /\ b[i] = "true" /\ LastCall(i) = <<"finishtxn", "">>
        /\ pc[j] = "fatal" /\ b[j] = "error" /\ LastCall(j) = <<"finishtxn", "">>


(***************************************************************************)
(* C15: when the flag read succeeds and yields a flag row whose value is   *)
(* not a string (a NULL value), the Probe propagates an error: its answer  *)
(* is an error and bootstrap halts on it, instead of answering             *)
(* (false, nil).                                                           *)
(***************************************************************************)
UndecodableFlagRow ==
    /\ TableExists(TiDBTable)
    /\ FlagRows # {}
    /\ \A r \in FlagRows : r.VARIABLE_VALUE.type # "string"

C15_UndecodableFlagIsError ==
    [][\A i \in Instances :
          (ReadStep(i) /\ lastErr'[i] = nil /\ UndecodableFlagRow) =>
              /\ b'[i] = "error"
              /\ pc'[i] = "fatal"
              /\ halt'[i] # nil]_vars


(***************************************************************************)
(* C16: the Loader's flag write is an upsert.  Answered by the store, it   *)
(* never fails, whether or not a flag row exists and whatever value that   *)
(* row holds; and when the Loader's COMMIT succeeds the flag table holds   *)
(* exactly one flag row, with value "True": an existing row was            *)
(* overwritten, a missing one inserted.                                    *)
(***************************************************************************)
\* Instance i's flag write returns in this step.
FlagWriteStep(i) ==
    /\ pc[i] = "dml"
    /\ issued'[i] # issued[i]
    /\ DMLStatements[idx[i]].obj = TiDBTable

\* Instance i's COMMIT returns without error in this step.
CommitStep(i) == pc[i] = "dml" /\ pc'[i] = "returned"

C16_FlagWriteIsUpsert ==
    [][\A i \in Instances :
          /\ (FlagWriteStep(i) /\ Answered(i)) =>
                 /\ lastErr'[i] = nil
                 /\ pc'[i] = "dml"
                 /\ rows' = rows
          /\ CommitStep(i) =>
                 /\ rows'[TiDBTable] = SetToBag({BootstrapFlagRow})
                 /\ BagCardinality(rows'[TiDBTable]) = 1]_vars

C16_Witness ==
    \E i \in Instances :
        /\ pc[i] = "dml" /\ idx[i] = 5 /\ lastErr[i] = nil
        /\ LastCall(i) = <<"upsert", "mysql.tidb">>
        /\ rows[TiDBTable] =
               SetToBag({[BootstrapFlagRow EXCEPT !.VARIABLE_VALUE = StringDatum("False")]})


(***************************************************************************)
(* C17: the bootstrap flag is monotonic.  The committed flag table holds   *)
(* no row until some Loader has committed; its content changes only in a   *)
(* step in which a Loader's COMMIT succeeds; a flag row is never deleted;  *)
(* and once the committed value is "True" it is "True" in every later      *)
(* state.                                                                  *)
(***************************************************************************)
C17_FlagMonotonic ==
    /\ [](FlagRows # {} => (FlagTrue /\ \E i \in Instances : Committed(i)))
    /\ [][/\ rows'[TiDBTable] # rows[TiDBTable] => \E i \in Instances : CommitStep(i)
          /\ FlagRows # {} => FlagRows' # {}
          /\ FlagTrue => FlagTrue']_vars

C17_Witness ==
    \E i \in Instances, j \in Instances :
        /\ Committed(i)
        /\ FlagTrue
        /\ pc[j] = "fatal" /\ lastErr[j] = "KeyExists" /\ LastCall(j) = <<"commit", "">>


(***************************************************************************)
(* C18: crash recovery.  When an instance was killed after its Probe       *)
(* answered "not initialized" and before its COMMIT succeeded (its         *)
(* transaction is dropped), a run started afterwards with no other         *)
(* instance running, and meeting no store failure, can always take its     *)
(* next step, makes at most the 20 calls of the full path, and ends only   *)
(* by returning without error, with the flag "True", exactly one principal *)
(* row and one row per registry variable.                                  *)
(***************************************************************************)
Interrupted(i) == pc[i] = "crashed" /\ b[i] = "false"

C18_CrashRecovery ==
    \A i \in Instances, j \in Instances :
        (i # j /\ Interrupted(i) /\ began[j].alone) =>
            /\ Len(issued[j]) <= Len(InitializePath)
            /\ txn[i] = NoTxn
            /\ pc[j] \notin Terminal =>
                   ENABLED (Use(j) \/ CheckVar(j) \/ FinishTxn(j) \/ DoDDLWorks(j) \/ DoDMLWorks(j))
            /\ (pc[j] \in Terminal /\ ~Faulted(j)) =>
                   /\ pc[j] = "returned"
                   /\ halt[j] = nil
                   /\ FlagTrue
                   /\ ExactlyOnce

C18_Witness ==
    \E i \in Instances, j \in Instances :
        /\ i # j
        /\ Interrupted(i)
        /\ LastCall(i) = <<"createtable", "mysql.tidb">>
        /\ began[j].alone
        /\ Committed(j)
        /\ FlagTrue


(***************************************************************************)
(* C19: with atomic Loader transactions and enforced primary keys, at most *)
(* one Loader transaction ever commits on an initially fresh store: no two *)
(* instances return from doDMLWorks, and no COMMIT succeeds once another   *)
(* instance's has, however many instances saw "not initialized".           *)
(***************************************************************************)
Committers == {i \in Instances : Committed(i)}

C19_AtMostOneLoaderCommits ==
    /\ [](Cardinality(Committers) <= 1)
    /\ [][\A i \in Instances : CommitStep(i) => Committers = {}]_vars

C19_Witness ==
    \E i \in Instances, j \in Instances :
        /\ Committed(i)
        /\ b[j] = "false" /\ ~began[j].flagTrue
        /\ Issued(j, <<"begin", "">>)
        /\ pc[j] = "fatal" /\ halt[j] = "KeyExists"


(***************************************************************************)
(* Racing instances on a store that answers every call                     *)
(***************************************************************************)
\* A step of instance i whose call the store answers; the instance is not
\* killed.
FairStep(i) ==
    \/ Use(i) /\ Answered(i)
    \/ CheckVar(i) /\ Answered(i)
    \/ FinishTxn(i) /\ Answered(i)
    \/ DoDDLWorks(i) /\ Answered(i)
    \/ DoDMLWorks(i) /\ Answered(i)

NextFair == \E i \in Instances : FairStep(i)

\* Every instance that can take a step eventually takes one.
FairSpec == Init /\ [][NextFair]_vars /\ \A i \in Instances : WF_vars(FairStep(i))

(***************************************************************************)
(* C20: under weak fairness of every instance's steps, on a store that     *)
(* answers every call, the instances racing on a fresh store all           *)
(* eventually terminate, by returning (ALREADY_DONE or DONE) or by a fatal *)
(* halt; at least one of them reaches DONE; and the committed flag         *)
(* becomes "True" and stays so.                                            *)
(***************************************************************************)
AllTerminated == \A i \in Instances : pc[i] \in {"returned", "fatal"}

C20_EventuallyBootstrapped ==
    <>[](AllTerminated /\ FlagTrue /\ \E i \in Instances : Committed(i))

C20_Witness ==
    /\ AllTerminated
    /\ FlagTrue
    /\ \E i \in Instances : Committed(i) /\ ExactlyOnce
    /\ \A i \in Instances : Len(issued[i]) \in {Len(AlreadyDonePath), Len(InitializePath)}

====
